---- MODULE Spec2Model ----
(***************************************************************************)
(* Model of _generate_schemas.py: the JSON-batch to SQL-script converter.  *)
(*                                                                         *)
(* Text is modelled as sequences of one-character strings, so that         *)
(* escaping, serialisation, filename matching and lexical sorting are      *)
(* computed character by character, as the Python code computes them.      *)
(***************************************************************************)
EXTENDS Integers, Sequences, FiniteSets, TLC

VARIABLES
    pc,           \* position of main(): "start", "loop", "done", "exit1", "raised",
                  \* or the position of a single helper call (see the helper specs)
    dir,          \* INPUT_DIR: function from file name to file content
    batch_files,  \* main's batch_files: the sorted glob result
    idx,          \* main's loop index (1-based here, idx - 1 is Python's idx)
    outDirExists, \* whether OUTPUT_DIR exists
    fs,           \* OUTPUT_DIR: function from written path to file content
    writes,       \* the open(out_path, "w") calls so far: <<[src, path]>>
    stdout,       \* lines printed to stdout
    stderr,       \* lines printed to stderr
    exitCode,     \* process exit status, -1 while running
    arg,          \* argument of a helper call (helper specs only)
    ret           \* result of a helper call (helper specs only)

vars == <<pc, dir, batch_files, idx, outDirExists, fs, writes, stdout, stderr,
          exitCode, arg, ret>>

----------------------------------------------------------------------------
(* Bounds of the model *)

\* longest text value given to sql_escape in the helper specification
MaxStrLen == 4
\* most files in INPUT_DIR
MaxFiles == 2
\* most array elements in INPUT_DIR, over all its files
MaxRows == 2

----------------------------------------------------------------------------
(* Text *)

Apos == "'"
DQuote == "\""
Backslash == "\\"

\* sep.join(parts)
RECURSIVE Join(_, _)
Join(sep, parts) ==
    IF parts = <<>> THEN <<>>
    ELSE IF Len(parts) = 1 THEN parts[1]
    ELSE parts[1] \o sep \o Join(sep, Tail(parts))

Digits == <<"0", "1", "2", "3", "4", "5", "6", "7", "8", "9">>

IsDigit(c) == \E d \in 1..10 : Digits[d] = c

DigitVal(c) == (CHOOSE d \in 1..10 : Digits[d] = c) - 1

\* int(text) for a text of decimal digits
RECURSIVE ParseInt(_)
ParseInt(s) ==
    IF s = <<>> THEN 0
    ELSE 10 * ParseInt(SubSeq(s, 1, Len(s) - 1)) + DigitVal(s[Len(s)])

\* str(n) for an integer n
RECURSIVE NatToStr(_)
NatToStr(n) ==
    IF n < 10 THEN <<Digits[n + 1]>>
    ELSE NatToStr(n \div 10) \o <<Digits[(n % 10) + 1]>>

IntToStr(n) == IF n < 0 THEN <<"-">> \o NatToStr(0 - n) ELSE NatToStr(n)

----------------------------------------------------------------------------
(* Parsed JSON values.  Every value is a record of the same shape:         *)
(*   t     "null", "bool", "num", "str", "list", "dict", or "absent" for a *)
(*         key that the enclosing object does not have                     *)
(*   s     the text of a "str"                                             *)
(*   n     the number of a "num", 1 or 0 for a "bool"                      *)
(*   items the elements of a "list" of strings; the alternating keys and   *)
(*         values of a "dict" from strings to strings                      *)

None == [t |-> "null", s |-> <<>>, n |-> 0, items |-> <<>>]
Absent == [t |-> "absent", s |-> <<>>, n |-> 0, items |-> <<>>]
JStr(s) == [t |-> "str", s |-> s, n |-> 0, items |-> <<>>]
JNum(n) == [t |-> "num", s |-> <<>>, n |-> n, items |-> <<>>]
JBool(b) == [t |-> "bool", s |-> <<>>, n |-> IF b THEN 1 ELSE 0, items |-> <<>>]
JList(items) == [t |-> "list", s |-> <<>>, n |-> 0, items |-> items]
JDict(items) == [t |-> "dict", s |-> <<>>, n |-> 0, items |-> items]

\* dict.get(key): None when the key is missing
Get(v) == IF v.t = "absent" THEN None ELSE v

\* Python truth value of a parsed JSON value
Truthy(v) ==
    CASE v.t = "null" -> FALSE
      [] v.t = "absent" -> FALSE
      [] v.t = "bool" -> v.n = 1
      [] v.t = "num" -> v.n # 0
      [] v.t = "str" -> v.s # <<>>
      [] OTHER -> v.items # <<>>

\* a or b
Or(a, b) == IF Truthy(a) THEN a ELSE b

----------------------------------------------------------------------------
(* SQL helpers *)

\* str.replace("'", "''")
RECURSIVE ReplaceApos(_)
ReplaceApos(s) ==
    IF s = <<>> THEN <<>>
    ELSE (IF Head(s) = Apos THEN <<Apos, Apos>> ELSE <<Head(s)>>)
         \o ReplaceApos(Tail(s))

\* str(value) for the values that reach the last branch of sql_escape
PyStr(value) == value.s

sql_escape_unescaped(value) ==
    CASE value.t \in {"null", "absent"} -> <<"N", "U", "L", "L">>
      [] value.t = "bool" -> IF value.n = 1 THEN <<"1">> ELSE <<"0">>
      [] value.t = "num" -> IntToStr(value.n)
      [] OTHER -> <<Apos>> \o PyStr(value) \o <<Apos>>

sql_escape(value) ==
    CASE value.t \in {"null", "absent"} -> <<"N", "U", "L", "L">>
      [] value.t = "bool" -> IF value.n = 1 THEN <<"1">> ELSE <<"0">>
      [] value.t = "num" -> IntToStr(value.n)
      [] OTHER -> <<Apos>> \o ReplaceApos(PyStr(value)) \o <<Apos>>

\* the escapes json.dumps applies inside a string
RECURSIVE JsonEscape(_)
JsonEscape(s) ==
    IF s = <<>> THEN <<>>
    ELSE (IF Head(s) \in {DQuote, Backslash}
          THEN <<Backslash, Head(s)>> ELSE <<Head(s)>>)
         \o JsonEscape(Tail(s))

DumpsStr(s) == <<DQuote>> \o JsonEscape(s) \o <<DQuote>>

\* the "key": "value" members of a dict, from its alternating keys and values
RECURSIVE DumpsMembers(_)
DumpsMembers(items) ==
    IF Len(items) < 2 THEN <<>>
    ELSE <<DumpsStr(items[1]) \o <<":", " ">> \o DumpsStr(items[2])>>
         \o DumpsMembers(Tail(Tail(items)))

\* json.dumps(value, ensure_ascii=False)
Dumps(value) ==
    CASE value.t = "null" -> <<"n", "u", "l", "l">>
      [] value.t = "bool" ->
            IF value.n = 1 THEN <<"t", "r", "u", "e">>
            ELSE <<"f", "a", "l", "s", "e">>
      [] value.t = "num" -> IntToStr(value.n)
      [] value.t = "str" -> DumpsStr(value.s)
      [] value.t = "list" ->
            <<"[">>
            \o Join(<<",", " ">>,
                    [i \in 1..Len(value.items) |-> DumpsStr(value.items[i])])
            \o <<"]">>
      [] OTHER ->
            <<"{">> \o Join(<<",", " ">>, DumpsMembers(value.items)) \o <<"}">>

to_json_text(value) ==
    IF value.t = "null" THEN None ELSE JStr(Dumps(value))

----------------------------------------------------------------------------
(* flatten_question *)

\* a question object's "metadata" value that is no dict: missing, null, or
\* a string (s); a dict carries the six keys the code reads
NoMeta(t, s) ==
    [t |-> t, s |-> s,
     cognitive_level |-> Absent, question_type |-> Absent,
     difficulty |-> Absent, source_file |-> Absent,
     source_file_page_number |-> Absent, topics |-> Absent]

EmptyDict == NoMeta("dict", <<>>)

MetaTruthy(m) ==
    CASE m.t \in {"absent", "null"} -> FALSE
      [] m.t = "str" -> m.s # <<>>
      [] OTHER ->
            \E k \in {"cognitive_level", "question_type", "difficulty",
                      "source_file", "source_file_page_number", "topics"} :
                m[k].t # "absent"

\* obj.get("metadata") or {}
MetaOf(obj) == IF MetaTruthy(obj.metadata) THEN obj.metadata ELSE EmptyDict

\* obj.get / meta.get raise AttributeError on a value that is no dict
FlattenRaises(obj) == obj.t # "dict" \/ MetaOf(obj).t # "dict"

flatten_question_metaFirst(obj, batch_id) ==
    LET meta == MetaOf(obj) IN
    [batch_id |-> JNum(batch_id),
     id |-> Get(obj.id),
     curriculum_area |-> Get(obj.curriculum_area),
     lecturer |-> Get(obj.lecturer),
     topic |-> Get(obj.topic),
     clusters |-> to_json_text(Get(obj.clusters)),
     cognitive_level |-> Or(Get(meta.cognitive_level), Get(obj.cognitive_level)),
     question_type |-> Or(Get(meta.question_type), Get(obj.question_type)),
     distractor_strategy |-> Get(obj.distractor_strategy),
     difficulty |-> Get(meta.difficulty),
     source_file |-> Get(meta.source_file),
     source_file_page_number |-> Get(meta.source_file_page_number),
     topics |-> to_json_text(Get(meta.topics)),
     question_prompt |-> Get(obj.question_prompt),
     choices |-> to_json_text(Get(obj.choices)),
     explanation |-> to_json_text(Get(obj.explanation)),
     related_questions |-> to_json_text(Get(obj.related_questions))]

flatten_question_noFallback(obj, batch_id) ==
    [flatten_question_metaFirst(obj, batch_id) EXCEPT
        !.cognitive_level = Get(obj.cognitive_level),
        !.question_type = Get(obj.question_type)]

flatten_question(obj, batch_id) ==
    LET meta == MetaOf(obj) IN
    [batch_id |-> JNum(batch_id),
     id |-> Get(obj.id),
     curriculum_area |-> Get(obj.curriculum_area),
     lecturer |-> Get(obj.lecturer),
     topic |-> Get(obj.topic),
     clusters |-> to_json_text(Get(obj.clusters)),
     cognitive_level |-> Or(Get(obj.cognitive_level), Get(meta.cognitive_level)),
     question_type |-> Or(Get(obj.question_type), Get(meta.question_type)),
     distractor_strategy |-> Get(obj.distractor_strategy),
     difficulty |-> Get(meta.difficulty),
     source_file |-> Get(meta.source_file),
     source_file_page_number |-> Get(meta.source_file_page_number),
     topics |-> to_json_text(Get(meta.topics)),
     question_prompt |-> Get(obj.question_prompt),
     choices |-> to_json_text(Get(obj.choices)),
     explanation |-> to_json_text(Get(obj.explanation)),
     related_questions |-> to_json_text(Get(obj.related_questions))]

----------------------------------------------------------------------------
(* Column definitions and statement builders.  A multi-line text is the    *)
(* sequence of its lines; a line is a record                               *)
(*   kind   which fixed text the line is                                   *)
(*   names  the identifiers the line embeds                                *)
(*   vals   the texts the line embeds                                      *)

COLUMNS ==
    << <<"batch_id", "INTEGER NOT NULL">>,
       <<"id", "TEXT">>,
       <<"curriculum_area", "TEXT">>,
       <<"lecturer", "TEXT">>,
       <<"topic", "TEXT">>,
       <<"clusters", "TEXT">>,
       <<"cognitive_level", "TEXT">>,
       <<"question_type", "TEXT">>,
       <<"distractor_strategy", "TEXT">>,
       <<"difficulty", "TEXT">>,
       <<"source_file", "TEXT">>,
       <<"source_file_page_number", "INTEGER">>,
       <<"topics", "TEXT">>,
       <<"question_prompt", "TEXT">>,
       <<"choices", "TEXT">>,
       <<"explanation", "TEXT">>,
       <<"related_questions", "TEXT">> >>

COLUMN_NAMES == [i \in 1..Len(COLUMNS) |-> COLUMNS[i][1]]

Line(kind, names, vals) == [kind |-> kind, names |-> names, vals |-> vals]

\* the empty text "" as a part of a "\n".join: one empty line
Blank == Line("blank", <<>>, <<>>)

create_table_sql ==
    << Line("drop_table", <<"questions">>, <<>>), Blank,
       Line("create_table", <<"questions">>, <<>>) >>
    \o [i \in 1..Len(COLUMNS) |->
          Line(IF i < Len(COLUMNS) THEN "column," ELSE "column",
               COLUMNS[i], <<>>)]
    \o << Line("create_end", <<>>, <<>>) >>

InsertLine(row) ==
    Line("insert", COLUMN_NAMES,
         [i \in 1..Len(COLUMN_NAMES) |-> sql_escape(row[COLUMN_NAMES[i]])])

insert_sql_reversed(rows) ==
    IF rows = <<>> THEN <<Blank>>
    ELSE [k \in 1..Len(rows) |-> InsertLine(rows[Len(rows) + 1 - k])]

insert_sql(rows) ==
    IF rows = <<>> THEN <<Blank>>
    ELSE [k \in 1..Len(rows) |-> InsertLine(rows[k])]

----------------------------------------------------------------------------
(* File names and discovery *)

Str_batch_ == <<"b", "a", "t", "c", "h", "_">>
Str_json == <<".", "j", "s", "o", "n">>
Str_schema_ == <<"s", "c", "h", "e", "m", "a", "_">>
Str_sql == <<".", "s", "q", "l">>

\* the characters of the modelled file names, in code point order
CharOrder ==
    <<".", "0", "1", "2", "3", "4", "5", "6", "7", "8", "9", "_",
      "a", "b", "c", "e", "h", "j", "n", "o", "s", "t", "x">>

Ord(c) == CHOOSE i \in 1..Len(CharOrder) : CharOrder[i] = c

\* a < b for two texts, as Python compares str
RECURSIVE StrLess(_, _)
StrLess(a, b) ==
    IF b = <<>> THEN FALSE
    ELSE IF a = <<>> THEN TRUE
    ELSE IF Head(a) = Head(b) THEN StrLess(Tail(a), Tail(b))
    ELSE Ord(Head(a)) < Ord(Head(b))

\* sorted(S) for a set of texts
RECURSIVE Sorted(_)
Sorted(S) ==
    IF S = {} THEN <<>>
    ELSE LET least == CHOOSE a \in S : \A b \in S \ {a} : StrLess(a, b)
         IN <<least>> \o Sorted(S \ {least})

StartsWith(s, prefix) ==
    Len(s) >= Len(prefix) /\ SubSeq(s, 1, Len(prefix)) = prefix

EndsWith(s, suffix) ==
    Len(s) >= Len(suffix)
    /\ SubSeq(s, Len(s) - Len(suffix) + 1, Len(s)) = suffix

\* fnmatch of a file name against "batch_*.json"
MatchesGlob(name) ==
    /\ Len(name) >= Len(Str_batch_) + Len(Str_json)
    /\ StartsWith(name, Str_batch_)
    /\ EndsWith(name, Str_json)

\* globmod.glob(pattern): the names of INPUT_DIR that match
glob(d) == {name \in DOMAIN d : MatchesGlob(name)}

\* the positions where r"batch_(\d+)\.json$" matches inside filename
MatchStarts(filename) ==
    {p \in 1..(Len(filename) - Len(Str_batch_) - Len(Str_json)) :
        LET digitsFrom == p + Len(Str_batch_)
            digitsTo == Len(filename) - Len(Str_json)
        IN /\ EndsWith(filename, Str_json)
           /\ SubSeq(filename, p, digitsFrom - 1) = Str_batch_
           /\ digitsFrom <= digitsTo
           /\ \A i \in digitsFrom..digitsTo : IsDigit(filename[i])}

\* re.search(...) found a match
HasMatch(filename) == MatchStarts(filename) # {}

\* match.group(1) of the leftmost match
Group1(filename) ==
    LET p == CHOOSE q \in MatchStarts(filename) :
                 \A r \in MatchStarts(filename) : q <= r
    IN SubSeq(filename, p + Len(Str_batch_), Len(filename) - Len(Str_json))

\* OUTPUT_DIR / f"schema_{suffix}.sql"
out_path(suffix) == Str_schema_ \o suffix \o Str_sql

----------------------------------------------------------------------------
(* File contents.  A file is malformed JSON, a JSON value that is no       *)
(* array ("object"), or an array of elements.                              *)

Content(kind, elems) == [kind |-> kind, elems |-> elems]

json_load_raises_never(content) == FALSE

\* json.load(f) raises json.JSONDecodeError
json_load_raises(content) == content.kind = "malformed"

isinstance_list_always(content) == TRUE

\* isinstance(data, list)
isinstance_list(content) == content.kind = "array"

\* a question object with no keys
EmptyObj ==
    [t |-> "dict", n |-> 0,
     id |-> Absent, curriculum_area |-> Absent, lecturer |-> Absent,
     topic |-> Absent, clusters |-> Absent, cognitive_level |-> Absent,
     question_type |-> Absent, distractor_strategy |-> Absent,
     question_prompt |-> Absent, choices |-> Absent, explanation |-> Absent,
     related_questions |-> Absent, metadata |-> NoMeta("absent", <<>>)]

\* {"id": "q1", "cognitive_level": "remember", "choices": ["A", "B"]}
ElemTop ==
    [EmptyObj EXCEPT
        !.id = JStr(<<"q", "1">>),
        !.cognitive_level = JStr(<<"r", "e", "m", "e", "m", "b", "e", "r">>),
        !.choices = JList(<< <<"A">>, <<"B">> >>)]

\* {"id": "q'2", "question_type": "", "explanation": {"why": "it's \"so\""},
\*  "metadata": {"cognitive_level": "apply", "question_type": "mcq",
\*               "source_file_page_number": 7, "topics": ["t"]}}
ElemMeta ==
    [EmptyObj EXCEPT
        !.id = JStr(<<"q", Apos, "2">>),
        !.question_type = JStr(<<>>),
        !.explanation =
            JDict(<< <<"w", "h", "y">>,
                     <<"i", "t", Apos, "s", " ", DQuote, "s", "o", DQuote>> >>),
        !.metadata =
            [EmptyDict EXCEPT
                !.cognitive_level = JStr(<<"a", "p", "p", "l", "y">>),
                !.question_type = JStr(<<"m", "c", "q">>),
                !.source_file_page_number = JNum(7),
                !.topics = JList(<< <<"t">> >>)]]

\* the array element 5: a JSON number where an object is expected
ElemNumber == [EmptyObj EXCEPT !.t = "num", !.n = 5]

Elems == {ElemTop, ElemMeta, ElemNumber}

\* all sequences over S of length at most n
SeqsUpTo(S, n) == UNION {[1..k -> S] : k \in 0..n}

Contents ==
    {Content("malformed", <<>>), Content("object", <<>>)}
    \cup {Content("array", es) : es \in SeqsUpTo(Elems, MaxRows)}

Name(mid, ext) == Str_batch_ \o mid \o ext

\* file names of INPUT_DIR: zero-padded and plain suffixes whose lexical and
\* numeric orders differ, a name with no number, a name that embeds a second
\* "batch_", and a name the glob does not match
Names ==
    {Name(<<"0", "2">>, Str_json),
     Name(<<"1", "0">>, Str_json),
     Name(<<"2">>, Str_json),
     Name(<<"x">>, Str_json),
     Name(Str_batch_ \o <<"2">>, Str_json),
     Name(<<"2">>, <<".", "t", "x", "t">>)}

\* the directories with the files of S holding at most budget array elements
RECURSIVE Assign(_, _)
Assign(S, budget) ==
    IF S = {} THEN {<<>>}
    ELSE LET name == CHOOSE x \in S : TRUE
             fits == IF MatchesGlob(name)
                     THEN {c \in Contents : Len(c.elems) <= budget}
                     ELSE {Content("object", <<>>)}
         IN UNION {{(name :> c) @@ rest :
                        rest \in Assign(S \ {name}, budget - Len(c.elems))} :
                   c \in fits}

Directories ==
    UNION {Assign(S, MaxRows) :
               S \in {T \in SUBSET Names : Cardinality(T) <= MaxFiles}}

----------------------------------------------------------------------------
(* main *)

Msg(kind, text, n) == [kind |-> kind, text |-> text, n |-> n]

\* the file main is at, its name and its content
filepath == batch_files[idx]
data == dir[filepath]

\* [flatten_question(obj, batch_id) for obj in data]
Rows(elems, batch_id) ==
    [k \in 1..Len(elems) |-> flatten_question(elems[k], batch_id)]

\* "\n".join(sql_parts), as lines; i is Python's idx
sql_parts(i, filename, batch_id, rows) ==
    (IF i = 0 THEN create_table_sql \o <<Blank>> ELSE <<>>)
    \o <<Line("comment", <<>>, <<filename, IntToStr(batch_id)>>)>>
    \o insert_sql(rows)
    \o <<Blank>>

\* open(out_path, "w").write(content)
WriteFile(path, content) ==
    fs' = [q \in DOMAIN fs \cup {path} |-> IF q = path THEN content ELSE fs[q]]

Init ==
    /\ pc = "start"
    /\ dir \in Directories
    /\ batch_files = <<>>
    /\ idx = 0
    /\ outDirExists = FALSE
    /\ fs = <<>>
    /\ writes = <<>>
    /\ stdout = <<>>
    /\ stderr = <<>>
    /\ exitCode = -1
    /\ arg = None
    /\ ret = <<>>

not_batch_files_never(found) == FALSE

\* "if not batch_files": the list is empty
not_batch_files(found) == found = <<>>

\* lines 172-177: no batch file found
NoBatchFiles ==
    /\ pc = "start"
    /\ not_batch_files(Sorted(glob(dir)))
    /\ stderr' = Append(stderr, Msg("no_batch_files", <<>>, 0))
    /\ exitCode' = 1
    /\ pc' = "exit1"
    /\ UNCHANGED <<dir, batch_files, idx, outDirExists, fs, writes, stdout,
                   arg, ret>>

\* lines 172-179: batch files found, OUTPUT_DIR made
Discover ==
    /\ pc = "start"
    /\ ~not_batch_files(Sorted(glob(dir)))
    /\ batch_files' = Sorted(glob(dir))
    /\ outDirExists' = TRUE
    /\ idx' = 1
    /\ pc' = "loop"
    /\ UNCHANGED <<dir, fs, writes, stdout, stderr, exitCode, arg, ret>>

InLoop == pc = "loop" /\ idx <= Len(batch_files)

\* lines 182-187
SkipBadName ==
    /\ InLoop
    /\ ~HasMatch(filepath)
    /\ stderr' = Append(stderr, Msg("cannot_parse_batch_number", filepath, 0))
    /\ idx' = idx + 1
    /\ UNCHANGED <<pc, dir, batch_files, outDirExists, fs, writes, stdout,
                   exitCode, arg, ret>>

\* lines 182-193: json.load raises and nothing catches it
RaiseOnLoad ==
    /\ InLoop
    /\ HasMatch(filepath)
    /\ json_load_raises(data)
    /\ stderr' = Append(stderr, Msg("traceback", filepath, 0))
    /\ exitCode' = 1
    /\ pc' = "raised"
    /\ UNCHANGED <<dir, batch_files, idx, outDirExists, fs, writes, stdout,
                   arg, ret>>

\* lines 182-199
SkipNotArray ==
    /\ InLoop
    /\ HasMatch(filepath)
    /\ ~json_load_raises(data)
    /\ ~isinstance_list(data)
    /\ stderr' = Append(stderr, Msg("not_an_array", filepath, 0))
    /\ idx' = idx + 1
    /\ UNCHANGED <<pc, dir, batch_files, outDirExists, fs, writes, stdout,
                   exitCode, arg, ret>>

\* lines 182-201: flatten_question raises AttributeError
RaiseOnFlatten ==
    /\ InLoop
    /\ HasMatch(filepath)
    /\ ~json_load_raises(data)
    /\ isinstance_list(data)
    /\ \E k \in 1..Len(data.elems) : FlattenRaises(data.elems[k])
    /\ stderr' = Append(stderr, Msg("traceback", filepath, 0))
    /\ exitCode' = 1
    /\ pc' = "raised"
    /\ UNCHANGED <<dir, batch_files, idx, outDirExists, fs, writes, stdout,
                   arg, ret>>

\* lines 182-216
WriteSchema ==
    /\ InLoop
    /\ HasMatch(filepath)
    /\ ~json_load_raises(data)
    /\ isinstance_list(data)
    /\ \A k \in 1..Len(data.elems) : ~FlattenRaises(data.elems[k])
    /\ LET batch_id == ParseInt(Group1(filepath))
           suffix == Group1(filepath)
           rows == Rows(data.elems, batch_id)
           path == out_path(suffix)
       IN /\ WriteFile(path, sql_parts(idx - 1, filepath, batch_id, rows))
          /\ writes' = Append(writes, [src |-> idx, path |-> path])
          /\ stdout' = Append(stdout, Msg("progress", path, Len(rows)))
    /\ idx' = idx + 1
    /\ UNCHANGED <<pc, dir, batch_files, outDirExists, stderr, exitCode,
                   arg, ret>>

\* line 218 and the return of main
Finish ==
    /\ pc = "loop"
    /\ idx > Len(batch_files)
    /\ stdout' = Append(stdout, Msg("summary", <<>>, Len(batch_files)))
    /\ exitCode' = 0
    /\ pc' = "done"
    /\ UNCHANGED <<dir, batch_files, idx, outDirExists, fs, writes, stderr,
                   arg, ret>>

Next ==
    \/ NoBatchFiles
    \/ Discover
    \/ SkipBadName
    \/ RaiseOnLoad
    \/ SkipNotArray
    \/ RaiseOnFlatten
    \/ WriteSchema
    \/ Finish

Spec == Init /\ [][Next]_vars

----------------------------------------------------------------------------
(* sql_escape on its own: one call on a value drawn from EscapeInputs *)

\* all texts over the characters a, ' and " of length at most MaxStrLen
Texts == SeqsUpTo({"a", Apos, DQuote}, MaxStrLen)

EscapeInputs ==
    {None, JBool(TRUE), JBool(FALSE)}
    \cup {JNum(n) : n \in {-3, 0, 7, 42}}
    \cup {JStr(s) : s \in Texts}

\* main is not running
MainIdle ==
    /\ dir = <<>>
    /\ batch_files = <<>>
    /\ idx = 0
    /\ outDirExists = FALSE
    /\ fs = <<>>
    /\ writes = <<>>
    /\ stdout = <<>>
    /\ stderr = <<>>
    /\ exitCode = -1

InitEscape ==
    /\ pc = "call_sql_escape"
    /\ arg \in EscapeInputs
    /\ ret = <<>>
    /\ MainIdle

CallSqlEscape ==
    /\ pc = "call_sql_escape"
    /\ ret' = sql_escape(arg)
    /\ pc' = "returned_sql_escape"
    /\ UNCHANGED <<dir, batch_files, idx, outDirExists, fs, writes, stdout,
                   stderr, exitCode, arg>>

NextEscape == CallSqlEscape

SpecEscape == InitEscape /\ [][NextEscape]_vars

----------------------------------------------------------------------------
(* flatten_question on its own: one call on an object drawn from           *)
(* FlattenInputs                                                           *)

\* values of cognitive_level: missing, null, falsy and truthy of each type
LevelValues ==
    {Absent, None, JStr(<<>>), JStr(<<"a">>), JNum(0), JNum(3),
     JBool(FALSE), JBool(TRUE)}

\* values of question_type
TypeValues == {Absent, JStr(<<>>), JStr(<<"m", "c", "q">>)}

MetaValues ==
    {NoMeta("absent", <<>>), NoMeta("null", <<>>), NoMeta("str", <<>>),
     NoMeta("str", <<"m">>)}
    \cup {[EmptyDict EXCEPT !.cognitive_level = c, !.question_type = q,
                            !.difficulty = JStr(<<"h", "i">>)] :
              c \in LevelValues, q \in TypeValues}
    \cup {EmptyDict}

FlattenInputs ==
    {[obj |-> [ElemTop EXCEPT !.cognitive_level = c, !.question_type = q,
                              !.metadata = m],
      batch_id |-> b] :
         c \in LevelValues, q \in TypeValues, m \in MetaValues, b \in {0, 10}}

InitFlatten ==
    /\ pc = "call_flatten_question"
    /\ arg \in FlattenInputs
    /\ ret = <<>>
    /\ MainIdle

CallFlatten ==
    /\ pc = "call_flatten_question"
    /\ ~FlattenRaises(arg.obj)
    /\ ret' = flatten_question(arg.obj, arg.batch_id)
    /\ pc' = "returned_flatten_question"
    /\ UNCHANGED <<dir, batch_files, idx, outDirExists, fs, writes, stdout,
                   stderr, exitCode, arg>>

CallFlattenRaises ==
    /\ pc = "call_flatten_question"
    /\ FlattenRaises(arg.obj)
    /\ pc' = "raised_flatten_question"
    /\ UNCHANGED <<dir, batch_files, idx, outDirExists, fs, writes, stdout,
                   stderr, exitCode, arg, ret>>

NextFlatten == CallFlatten \/ CallFlattenRaises

SpecFlatten == InitFlatten /\ [][NextFlatten]_vars

----------------------------------------------------------------------------
(* Properties of sql_escape and flatten_question *)

\* number of occurrences of character c in text s
RECURSIVE Count(_, _)
Count(c, s) ==
    IF s = <<>> THEN 0
    ELSE (IF Head(s) = c THEN 1 ELSE 0) + Count(c, Tail(s))

\* every ' of a quoted body is followed by a second ' that pairs with it
RECURSIVE QuotesPaired(_)
QuotesPaired(body) ==
    IF body = <<>> THEN TRUE
    ELSE IF Head(body) = Apos
         THEN Len(body) >= 2 /\ body[2] = Apos
              /\ QuotesPaired(Tail(Tail(body)))
         ELSE QuotesPaired(Tail(body))

\* a quoted body read back as SQL reads it: each pair '' is one '
RECURSIVE Undouble(_)
Undouble(body) ==
    IF body = <<>> THEN <<>>
    ELSE IF Head(body) = Apos /\ Len(body) >= 2
         THEN <<Apos>> \o Undouble(Tail(Tail(body)))
         ELSE <<Head(body)>> \o Undouble(Tail(body))

\* C5: sql_escape of a text value is the text between one opening and one
\* closing single quote, with every single quote of the text doubled: the
\* quotes of the body come in adjacent pairs, the body has twice the quotes
\* of the text, and the body read back is the text.
C5_EscapeDoublesQuotes ==
    (pc = "returned_sql_escape" /\ arg.t = "str") =>
        /\ Len(ret) >= 2
        /\ ret[1] = Apos
        /\ ret[Len(ret)] = Apos
        /\ LET body == SubSeq(ret, 2, Len(ret) - 1)
           IN /\ QuotesPaired(body)
              /\ Count(Apos, body) = 2 * Count(Apos, arg.s)
              /\ Len(body) = Len(arg.s) + Count(Apos, arg.s)
              /\ Undouble(body) = arg.s

C5_Witness ==
    /\ pc = "returned_sql_escape"
    /\ arg = JStr(<<"a", Apos, Apos, DQuote>>)
    /\ ret = <<Apos, "a", Apos, Apos, Apos, Apos, DQuote, Apos>>

\* a key holds a value: it is there and is not null
Present(v) == v.t \notin {"absent", "null"}

PrecedenceFields == {"cognitive_level", "question_type"}

\* C3 as stated: whenever cognitive_level (or question_type) holds a value at
\* the top level and under metadata, the row has the top-level value,
\* whatever that value is.
C3_TopLevelAlwaysWins ==
    pc = "returned_flatten_question" =>
        \A f \in PrecedenceFields :
            (Present(arg.obj[f]) /\ arg.obj.metadata.t = "dict"
             /\ Present(arg.obj.metadata[f]))
                => ret[f] = arg.obj[f]

\* C3 as amended: whenever cognitive_level (or question_type) holds a truthy
\* value at the top level (not null, false, 0 or empty) and a value under
\* metadata, the row has the top-level value.
C3_TruthyTopLevelWins ==
    pc = "returned_flatten_question" =>
        \A f \in PrecedenceFields :
            (Truthy(arg.obj[f]) /\ arg.obj.metadata.t = "dict"
             /\ Present(arg.obj.metadata[f]))
                => ret[f] = arg.obj[f]

C3_Witness ==
    /\ pc = "returned_flatten_question"
    /\ arg.obj.cognitive_level = JNum(3)
    /\ arg.obj.metadata.t = "dict"
    /\ arg.obj.metadata.cognitive_level = JStr(<<"a">>)
    /\ arg.obj.question_type = JStr(<<"m", "c", "q">>)
    /\ arg.obj.metadata.question_type = JStr(<<>>)
    /\ ret.cognitive_level = JNum(3)
    /\ ret.question_type = JStr(<<"m", "c", "q">>)

\* C4: when cognitive_level (or question_type) is missing at the top level,
\* the row has the value under metadata if there is one, and null if the
\* key is missing there too (or there is no metadata).
C4_FallsBackToMetadata ==
    pc = "returned_flatten_question" =>
        \A f \in PrecedenceFields :
            arg.obj[f].t = "absent" =>
                IF arg.obj.metadata.t = "dict"
                   /\ arg.obj.metadata[f].t # "absent"
                THEN ret[f] = arg.obj.metadata[f]
                ELSE ret[f] = None

C4_Witness ==
    /\ pc = "returned_flatten_question"
    /\ arg.obj.cognitive_level = Absent
    /\ arg.obj.question_type = Absent
    /\ arg.obj.metadata.t = "dict"
    /\ arg.obj.metadata.cognitive_level = JBool(FALSE)
    /\ arg.obj.metadata.question_type = Absent
    /\ ret.cognitive_level = JBool(FALSE)
    /\ ret.question_type = None

----------------------------------------------------------------------------
(* Properties of main *)

\* the file at position i of the discovery order
FileAt(i) == dir[batch_files[i]]

\* position i is skipped with a diagnostic: no batch number in the name, or
\* well-formed JSON that is no array
SkippedAt(i) ==
    \/ ~HasMatch(batch_files[i])
    \/ FileAt(i).kind = "object"

\* position i holds a valid input: a numbered name and an array of objects
ValidAt(i) ==
    /\ HasMatch(batch_files[i])
    /\ FileAt(i).kind = "array"
    /\ \A k \in 1..Len(FileAt(i).elems) :
           /\ FileAt(i).elems[k].t = "dict"
           /\ (FileAt(i).elems[k].metadata.t # "str"
               \/ FileAt(i).elems[k].metadata.s = <<>>)

\* position i has a numbered name and malformed JSON
MalformedAt(i) ==
    HasMatch(batch_files[i]) /\ FileAt(i).kind = "malformed"

Positions == 1..Len(batch_files)

WrittenFrom(i) == {w \in 1..Len(writes) : writes[w].src = i}

HasCreateBlock(content) ==
    \E l \in 1..Len(content) : content[l].kind = "create_table"

InsertLines(content) ==
    SelectSeq(content, LAMBDA line : line.kind = "insert")

SummaryPrinted == \E l \in 1..Len(stdout) : stdout[l].kind = "summary"

\* C1 as stated: after a completed run with at least one valid input, the
\* DROP/CREATE block is in exactly one written output file, the one of the
\* lowest numeric suffix among the valid inputs.
C1_CreateBlockInLowestValid ==
    (pc = "done" /\ \E i \in Positions : ValidAt(i)) =>
        LET withBlock == {q \in DOMAIN fs : HasCreateBlock(fs[q])}
            number(i) == ParseInt(Group1(batch_files[i]))
        IN /\ Cardinality(withBlock) = 1
           /\ \E i \in Positions :
                 /\ ValidAt(i)
                 /\ \A j \in Positions : ValidAt(j) => number(i) <= number(j)
                 /\ out_path(Group1(batch_files[i])) \in withBlock

\* C2: the file written for an input array of n objects holds exactly n
\* INSERT statements, and the k-th is the one rendered from the k-th element
\* of the array.  Stated of the latest write, in every state.
C2_OneInsertPerElementInOrder ==
    writes # <<>> =>
        LET w == writes[Len(writes)]
            elems == FileAt(w.src).elems
            batch_id == ParseInt(Group1(batch_files[w.src]))
            inserts == InsertLines(fs[w.path])
        IN /\ Len(inserts) = Len(elems)
           /\ \A k \in 1..Len(elems) :
                 /\ inserts[k] = InsertLine(flatten_question(elems[k], batch_id))
                 /\ inserts[k].vals[2] = sql_escape(Get(elems[k].id))

C2_Witness ==
    /\ pc = "done"
    /\ Len(writes) = 1
    /\ FileAt(writes[1].src).elems = <<ElemMeta, ElemTop>>
    /\ LET inserts == InsertLines(fs[writes[1].path])
       IN /\ Len(inserts) = 2
          /\ inserts[1].vals[2] = <<Apos, "q", Apos, Apos, "2", Apos>>
          /\ inserts[2].vals[2] = <<Apos, "q", "1", Apos>>

\* C6, at the end of a run: a skipped file has no output file written for it
\* and has its diagnostic, and every valid file has its output file.
C6_SkippedThenRest ==
    pc = "done" =>
        \A i \in Positions :
            /\ SkippedAt(i) =>
                  /\ WrittenFrom(i) = {}
                  /\ \E l \in 1..Len(stderr) :
                        /\ stderr[l].text = batch_files[i]
                        /\ stderr[l].kind \in {"cannot_parse_batch_number",
                                               "not_an_array"}
            /\ ValidAt(i) =>
                  /\ WrittenFrom(i) # {}
                  /\ out_path(Group1(batch_files[i])) \in DOMAIN fs

\* C6, at the skipped file: main writes nothing, prints one diagnostic that
\* names the file, and goes on to the next position without exiting.
C6_SkipStep ==
    (InLoop /\ SkippedAt(idx)) =>
        /\ idx' = idx + 1
        /\ pc' = "loop"
        /\ exitCode' = -1
        /\ fs' = fs
        /\ writes' = writes
        /\ stdout' = stdout
        /\ Len(stderr') = Len(stderr) + 1
        /\ stderr'[Len(stderr')].text = batch_files[idx]

C7_NoInputAborts ==
    (pc # "start" /\ \A name \in DOMAIN dir : ~MatchesGlob(name)) =>
        /\ pc = "exit1"
        /\ exitCode = 1
        /\ stderr = <<Msg("no_batch_files", <<>>, 0)>>
        /\ ~outDirExists
        /\ fs = <<>>
        /\ writes = <<>>
        /\ stdout = <<>>

C7_Witness ==
    /\ pc = "exit1"
    /\ exitCode = 1
    /\ DOMAIN dir # {}
    /\ ~outDirExists

\* C8 as stated: every processed batch_<d>.json is written to schema_<d>.sql,
\* and no two discovered files write the same output path.
C8_OneWritePerPath ==
    /\ \A w \in 1..Len(writes) :
          LET name == batch_files[writes[w].src]
              d == SubSeq(name, Len(Str_batch_) + 1, Len(name) - Len(Str_json))
          IN (\A c \in 1..Len(d) : IsDigit(d[c]))
                 => writes[w].path = Str_schema_ \o d \o Str_sql
    /\ \A v, w \in 1..Len(writes) :
          writes[v].src # writes[w].src => writes[v].path # writes[w].path

\* C9 as stated: a file of malformed JSON anywhere in the discovery order
\* ends the run before the summary line.
C9_MalformedAlwaysFatal ==
    (\E k \in Positions : FileAt(k).kind = "malformed") =>
        pc # "done" /\ ~SummaryPrinted

\* C9 as amended, in every state: with a numbered name and malformed JSON at
\* position k, the run never completes or prints the summary, never gets
\* past k and writes nothing for k or later; when it ends at k, the output
\* files of the valid files before k are written and remain.
C9_FatalAtMalformed ==
    \A k \in Positions :
        MalformedAt(k) =>
            /\ pc # "done"
            /\ exitCode # 0
            /\ ~SummaryPrinted
            /\ idx <= k
            /\ \A j \in k..Len(batch_files) : WrittenFrom(j) = {}
            /\ (pc = "raised" /\ idx = k) =>
                  \A j \in 1..(k - 1) :
                      ValidAt(j) =>
                          /\ WrittenFrom(j) # {}
                          /\ out_path(Group1(batch_files[j])) \in DOMAIN fs

\* C9 as amended, at position k: the parse failure ends the run there with
\* a non-zero exit, writing nothing.
C9_RaiseStep ==
    (InLoop /\ MalformedAt(idx)) =>
        /\ pc' = "raised"
        /\ exitCode' = 1
        /\ idx' = idx
        /\ fs' = fs
        /\ writes' = writes
        /\ stdout' = stdout

\* C9 as amended: a file with a numbered name and malformed JSON at position
\* k ends the run at k, or the run has ended before k; nothing is written
\* for k or later and the summary is never printed; when the run ends at k,
\* the output files of the valid files before k are written and remain.
C9_MalformedNumberedIsFatal == []C9_FatalAtMalformed /\ [][C9_RaiseStep]_vars

C9_Witness ==
    /\ pc = "raised"
    /\ idx = 2
    /\ MalformedAt(2)
    /\ ValidAt(1)
    /\ Len(writes) = 1
    /\ DOMAIN fs = {out_path(Group1(batch_files[1]))}
    /\ ~SummaryPrinted

\* C10 as stated: on a completed run, the number in the summary line is the
\* number of schema files written during the run.
C10_SummaryCountsWritten ==
    pc = "done" =>
        \A l \in 1..Len(stdout) :
            stdout[l].kind = "summary" =>
                /\ stdout[l].n = Cardinality(DOMAIN fs)
                /\ stdout[l].n = Len(writes)

====
